---- MODULE Spec2Model ----
(***************************************************************************)
(* Habit tracker: the streak engine of src/modules/analytics.py over the   *)
(* Habit objects of src/modules/habit.py.                                  *)
(*                                                                         *)
(* Time is counted in whole hours since an arbitrary epoch; a datetime is  *)
(* an integer number of hours and a timedelta is their difference.         *)
(***************************************************************************)
EXTENDS Integers, Sequences, FiniteSets, TLC

\* ------------------------------------------------------------------ bounds

\* Longest completion list a habit holds in the model.
MaxCompletions == 3

\* Longest list of habits handed to the analytics API in the model.
MaxHabits == 2

\* ------------------------------------------------------- program constants

\* timedelta(days=1), timedelta(weeks=1), timedelta(days=30), in hours.
DailyHours == 24
WeeklyHours == 168
MonthlyHours == 720
\* timedelta(hours=12): the grace added to the period.
GraceHours == 12

\* habit.py: VALID_PERIODICITIES
VALID_PERIODICITIES == {"daily", "weekly", "monthly"}

\* The periodicity strings a Habit object handed to the analytics functions
\* may carry: the dataclass is not frozen and calculate_streaks reads the
\* attribute of whatever object it is given, so a string outside
\* VALID_PERIODICITIES is among them.
PeriodicityInputs == VALID_PERIODICITIES \cup {"yearly"}

\* The instants (hours) the clock and the completion timestamps range over.
\* Their differences hit each period, each period + 12h exactly, one hour
\* beyond it, and the spacings of the documented scenarios; the last instant
\* lies more than a month after every other one.
Times == {0, 216, 552, 672, 696, 720, 732, 733, 744, 1500}

\* ------------------------------------------------------------------- state

VARIABLES
    periodicity,   \* habit.periodicity
    completions,   \* habit.completions, in stored (insertion) order
    now,           \* the last reading of the clock, datetime.utcnow()
    ret,           \* outcome of the last call
    habits,        \* a List[Habit] handed to the analytics API, in input order
    out,           \* the last call on that list and its outcome
    db,            \* the SQLite database behind a HabitManager
    res            \* the last call on that HabitManager and its outcome

vars == <<periodicity, completions, now, ret, habits, out, db, res>>

\* The single habit of the streak engine's calls; the list of habits.
habitVars == <<periodicity, completions, ret>>
listVars == <<habits, out>>
\* The database and the HabitManager over it.
storeVars == <<db, res>>

\* Outcomes of a call: a returned integer, a raised ValueError, or None.
Return(v) == [kind |-> "return", val |-> v]
RaiseValueError == [kind |-> "ValueError", val |-> 0]
ReturnNone == [kind |-> "None", val |-> 0]

\* ------------------------------------------------------------ analytics.py

\* _period_delta raises ValueError on any string but the three it knows.
period_delta_raises(p) == p \notin {"daily", "weekly", "monthly"}

\* Faulty variant of _period_delta: a week taken for a day.
period_delta_week_as_day(p) ==
    CASE p = "daily" -> DailyHours
      [] p = "weekly" -> DailyHours
      [] p = "monthly" -> MonthlyHours

\* Faulty variant of _period_delta: a month of 31 days.
period_delta_month_31(p) ==
    CASE p = "daily" -> DailyHours
      [] p = "weekly" -> WeeklyHours
      [] p = "monthly" -> MonthlyHours + DailyHours

\* _period_delta on the strings it knows: the period length in hours.
_period_delta(p) ==
    CASE p = "daily" -> DailyHours
      [] p = "weekly" -> WeeklyHours
      [] p = "monthly" -> MonthlyHours

\* sorted(habit.completions): ascending, by insertion of each element in turn.
RECURSIVE insert_sorted(_, _)
insert_sorted(x, s) ==
    IF s = <<>> THEN <<x>>
    ELSE IF x < Head(s) THEN <<x>> \o s
    ELSE <<Head(s)>> \o insert_sorted(x, Tail(s))

\* Faulty variant of sorted: the list is used in stored order.
sorted_as_stored(s) == s

RECURSIVE sorted(_)
sorted(s) ==
    IF s = <<>> THEN <<>>
    ELSE insert_sorted(s[Len(s)], sorted(SubSeq(s, 1, Len(s) - 1)))

\* Faulty variants of too_long_ago: the check left out; >= for >.
too_long_ago_never(t, last, period) == FALSE

too_long_ago_inclusive(t, last, period) == (t - last) >= (period + GraceHours)

\* The distance in either direction compared with the window.
too_long_ago_either_way(t, last, period) ==
    (IF t >= last THEN t - last ELSE last - t) > (period + GraceHours)

\* Line 41: (now - completions[-1]) > (period + timedelta(hours=12)).
too_long_ago(t, last, period) == (t - last) > (period + GraceHours)

\* Faulty variants of gap_within: < for <=; a gap of 0 refused.
gap_within_strict(delta, period) == delta < period + GraceHours

gap_within_positive(delta, period) == 0 < delta /\ delta <= period + GraceHours

\* Line 47: delta <= period + timedelta(hours=12).
gap_within(delta, period) == delta <= period + GraceHours

\* Faulty variant of streak_loop: no break at a gap beyond the window.
RECURSIVE streak_loop_no_break(_, _, _, _)
streak_loop_no_break(cs, i, period, streak) ==
    IF i < 1 THEN streak
    ELSE IF gap_within(cs[i + 1] - cs[i], period)
         THEN streak_loop_no_break(cs, i - 1, period, streak + 1)
         ELSE streak_loop_no_break(cs, i - 1, period, streak)

\* The loop of lines 45-50 over the sorted list cs: python's i runs from
\* len-2 down to 0, here i from Len-1 down to 1; the streak grows while the
\* gap between cs[i] and cs[i+1] is within the window, and the loop breaks at
\* the first gap that is not.
RECURSIVE streak_loop(_, _, _, _)
streak_loop(cs, i, period, streak) ==
    IF i < 1 THEN streak
    ELSE IF gap_within(cs[i + 1] - cs[i], period)
         THEN streak_loop(cs, i - 1, period, streak + 1)
         ELSE streak

\* Faulty variant of completions_after_calculate_streaks: the list sorted in
\* place (habit.completions.sort()).
completions_sorted_in_place(comps) == sorted(comps)

\* habit.completions once calculate_streaks has run: line 32 sorts a copy
\* (sorted builds a new list) and nothing else writes to the habit.
completions_after_calculate_streaks(comps) == comps

\* Faulty variants of calculate_streaks: the empty list not returned early, so
\* that completions[-1] raises IndexError; the gap from the most recent
\* completion to now counted as one more pair.
calculate_streaks_no_empty_check(p, comps, t) ==
    LET cs == sorted(comps) IN
    IF cs = <<>> THEN [kind |-> "IndexError", val |-> 0]
    ELSE IF period_delta_raises(p) THEN RaiseValueError
    ELSE LET period == _period_delta(p) IN
         IF too_long_ago(t, cs[Len(cs)], period) THEN Return(0)
         ELSE Return(streak_loop(cs, Len(cs) - 1, period, 1))

\* The staleness check made on the earliest completion, completions[0].
calculate_streaks_stale_by_first(p, comps, t) ==
    LET cs == sorted(comps) IN
    IF cs = <<>> THEN Return(0)
    ELSE IF period_delta_raises(p) THEN RaiseValueError
    ELSE LET period == _period_delta(p) IN
         IF too_long_ago(t, cs[1], period) THEN Return(0)
         ELSE Return(streak_loop(cs, Len(cs) - 1, period, 1))

\* The count started at 0 instead of 1 (line 44).
calculate_streaks_from_zero(p, comps, t) ==
    LET cs == sorted(comps) IN
    IF cs = <<>> THEN Return(0)
    ELSE IF period_delta_raises(p) THEN RaiseValueError
    ELSE LET period == _period_delta(p) IN
         IF too_long_ago(t, cs[Len(cs)], period) THEN Return(0)
         ELSE Return(streak_loop(cs, Len(cs) - 1, period, 0))

calculate_streaks_counts_now(p, comps, t) ==
    LET cs == sorted(comps) IN
    IF cs = <<>> THEN Return(0)
    ELSE IF period_delta_raises(p) THEN RaiseValueError
    ELSE LET period == _period_delta(p) IN
         IF too_long_ago(t, cs[Len(cs)], period) THEN Return(0)
         ELSE Return(streak_loop(Append(cs, t), Len(cs), period, 1))

\* calculate_streaks(habit), utcnow() reading t: lines 32-51.
calculate_streaks(p, comps, t) ==
    LET cs == sorted(comps) IN
    IF cs = <<>> THEN Return(0)
    ELSE IF period_delta_raises(p) THEN RaiseValueError
    ELSE LET period == _period_delta(p) IN
         IF too_long_ago(t, cs[Len(cs)], period) THEN Return(0)
         ELSE Return(streak_loop(cs, Len(cs) - 1, period, 1))

\* ----------------------------------------------------------------- actions

\* A clock reading: utcnow() never runs backwards between two readings.
ClockReadings == {t \in Times : t >= now}

\* No call on a list of habits has been made.
NoCall == [op |-> "none", argIdx |-> 0, argStr |-> "", kind |-> "None",
           name |-> "", val |-> 0, list |-> <<>>]

\* sqlite_handler.py, ensure_tables on a new file: both tables empty, no id
\* issued yet (sqlite_sequence holds the last AUTOINCREMENT id of a table).
EmptyDb == [habits |-> <<>>, completions |-> <<>>,
            seq_habits |-> 0, seq_completions |-> 0]

\* No call on the HabitManager has been made.
NoResult == [op |-> "none", id |-> 0, name |-> "", periodicity |-> "",
             when |-> 0, kind |-> "None", list |-> <<>>, val |-> 0]

Init ==
    /\ periodicity \in PeriodicityInputs
    /\ completions = <<>>
    /\ now = 0
    /\ ret = ReturnNone
    /\ habits = <<>>
    /\ out = NoCall
    /\ db = EmptyDb
    /\ res = NoResult

\* Habit.add_completion(when): append when, or utcnow() when it is None.
add_completion_when ==
    /\ Len(completions) < MaxCompletions
    /\ \E when \in Times :
        completions' = Append(completions, when)
    /\ ret' = ReturnNone
    /\ UNCHANGED <<periodicity, now>>
    /\ UNCHANGED listVars
    /\ UNCHANGED storeVars

add_completion_now ==
    /\ Len(completions) < MaxCompletions
    /\ \E t \in ClockReadings :
        /\ now' = t
        /\ completions' = Append(completions, t)
    /\ ret' = ReturnNone
    /\ UNCHANGED periodicity
    /\ UNCHANGED listVars
    /\ UNCHANGED storeVars

\* analytics.calculate_streaks(habit): reads the clock, returns or raises.
call_calculate_streaks ==
    /\ \E t \in ClockReadings :
        /\ now' = t
        /\ ret' = calculate_streaks(periodicity, completions, t)
    /\ completions' = completions_after_calculate_streaks(completions)
    /\ UNCHANGED periodicity
    /\ UNCHANGED listVars
    /\ UNCHANGED storeVars

Next ==
    \/ add_completion_when
    \/ add_completion_now
    \/ call_calculate_streaks

Spec == Init /\ [][Next]_vars

\* ------------------------------------------- analytics.py: the list API

\* The clock reading at which the sample habits are built (the tests' now).
ListEpoch == 744

\* Habit names in the lists, and names asked for by longest_streak_for_habit_name.
Names == {"Run", "run", "Read"}
QueryNames == {"RUN", "Ru", "Read"}

\* str.lower() on the names above.
lower(str) ==
    CASE str \in {"Run", "RUN", "run"} -> "run"
      [] str \in {"Read", "read"} -> "read"
      [] str \in {"Ru", "ru"} -> "ru"

\* The completion lists the sample habits are built with, newest first as in
\* the tests ([now - timedelta(days=i) for i in range(k)]): runs of 0, 3 and
\* 5 daily completions ending at ListEpoch.
Run(k) == [i \in 1..k |-> ListEpoch - DailyHours * (i - 1)]

SampleCompletions == {Run(0), Run(3), Run(5)}

\* The list is analysed at ListEpoch, or more than a month and 12h later; the
\* clock does not advance measurably between the calls on one list.
ListClock == {ListEpoch, ListEpoch + MonthlyHours + DailyHours}

\* Habit.__post_init__ raises ValueError on an unknown periodicity.
post_init_raises(p) == p \notin VALID_PERIODICITIES

\* Habit(id=None, name, periodicity, created_at, completions); id None is 0.
Habit(name, p, created, comps) ==
    [id |-> 0, name |-> name, periodicity |-> p, created_at |-> created,
     completions |-> comps]

\* Outcome of a call on the list.
Outcome(op, argIdx, argStr, kind, name, val, list) ==
    [op |-> op, argIdx |-> argIdx, argStr |-> argStr, kind |-> kind,
     name |-> name, val |-> val, list |-> list]

\* calculate_streaks(h) at clock reading t, and h once it has run.
streak_of(h, t) == calculate_streaks(h.periodicity, h.completions, t)

habit_after_streak(h) ==
    [h EXCEPT !.completions = completions_after_calculate_streaks(@)]

\* longest_streak_for_habit(habit): lines 68-70.
longest_streak_for_habit(h, t) == streak_of(h, t)

\* Faulty variant of list_by_periodicity: the test negated.
list_by_periodicity_negated(hs, p) ==
    SelectSeq(hs, LAMBDA h : h.periodicity # p)

\* list_by_periodicity(habits, periodicity): line 65, filter in input order.
list_by_periodicity(hs, p) ==
    SelectSeq(hs, LAMBDA h : h.periodicity = p)

\* Faulty variant of max_by_streak: >= for >, the last maximum wins.
RECURSIVE max_by_streak_last(_, _, _)
max_by_streak_last(pairs, i, best) ==
    IF i > Len(pairs) THEN best
    ELSE IF pairs[i][2] >= best[2]
         THEN max_by_streak_last(pairs, i + 1, pairs[i])
         ELSE max_by_streak_last(pairs, i + 1, best)

\* max(streaks, key=lambda x: x[1]), line 79: python's max keeps the first
\* element and replaces it only by one whose key is strictly greater.
RECURSIVE max_by_streak(_, _, _)
max_by_streak(pairs, i, best) ==
    IF i > Len(pairs) THEN best
    ELSE IF pairs[i][2] > best[2]
         THEN max_by_streak(pairs, i + 1, pairs[i])
         ELSE max_by_streak(pairs, i + 1, best)

\* Faulty variant of longest_streak_overall: no early return for the empty
\* list, so that max() of an empty list raises ValueError.
longest_streak_overall_no_empty_check(hs, t) ==
    LET streaks == [i \in 1..Len(hs) |-> streak_of(hs[i], t)]
        pairs == [i \in 1..Len(hs) |-> <<hs[i].name, streaks[i].val>>]
    IN  IF hs = <<>> \/ \E i \in 1..Len(hs) : streaks[i].kind = "ValueError"
        THEN Outcome("longest_streak_overall", 0, "", "ValueError", "", 0, <<>>)
        ELSE LET best == max_by_streak(pairs, 2, pairs[1])
             IN Outcome("longest_streak_overall", 0, "", "return",
                        best[1], best[2], <<>>)

\* longest_streak_overall(habits): lines 73-79. None for the empty list; an
\* error of calculate_streaks propagates; else the (name, streak) pair max picks.
longest_streak_overall(hs, t) ==
    IF hs = <<>>
    THEN Outcome("longest_streak_overall", 0, "", "None", "", 0, <<>>)
    ELSE LET streaks == [i \in 1..Len(hs) |-> streak_of(hs[i], t)]
             pairs == [i \in 1..Len(hs) |-> <<hs[i].name, streaks[i].val>>]
         IN  IF \E i \in 1..Len(hs) : streaks[i].kind = "ValueError"
             THEN Outcome("longest_streak_overall", 0, "", "ValueError", "", 0, <<>>)
             ELSE LET best == max_by_streak(pairs, 2, pairs[1])
                  IN Outcome("longest_streak_overall", 0, "", "return",
                             best[1], best[2], <<>>)

\* Faulty variant of names_match: the case is not folded.
names_match_case_sensitive(hname, name) == hname = name

\* Line 88: h.name.lower() == name.lower().
names_match(hname, name) == lower(hname) = lower(name)

\* The loop of lines 87-90: the index of the first habit whose name matches,
\* from i on; 0 when the loop ends without one.
RECURSIVE find_by_name(_, _, _)
find_by_name(hs, i, name) ==
    IF i > Len(hs) THEN 0
    ELSE IF names_match(hs[i].name, name) THEN i
    ELSE find_by_name(hs, i + 1, name)

\* longest_streak_for_habit_name(habits, name): lines 82-90.
longest_streak_for_habit_name(hs, name, t) ==
    LET i == find_by_name(hs, 1, name)
    IN  IF i = 0
        THEN Outcome("longest_streak_for_habit_name", 0, name, "None", "", 0, <<>>)
        ELSE LET r == streak_of(hs[i], t)
             IN Outcome("longest_streak_for_habit_name", 0, name, r.kind, "",
                        r.val, <<>>)

\* ------------------------------------------------- actions on a list

InitList ==
    /\ periodicity = "daily"
    /\ completions = <<>>
    /\ now \in ListClock
    /\ ret = ReturnNone
    /\ habits = <<>>
    /\ out = NoCall
    /\ db = EmptyDb
    /\ res = NoResult

\* habits.append(Habit(id=None, name=..., periodicity=..., completions=...)):
\* created_at defaults to utcnow(); __post_init__ raises on a bad periodicity
\* and then nothing is appended.
construct_habit ==
    /\ Len(habits) < MaxHabits
    /\ \E name \in Names, p \in PeriodicityInputs, comps \in SampleCompletions :
        IF post_init_raises(p)
        THEN /\ habits' = habits
             /\ out' = Outcome("Habit", 0, "", "ValueError", "", 0, <<>>)
        ELSE /\ habits' = Append(habits, Habit(name, p, now, comps))
             /\ out' = Outcome("Habit", 0, "", "return", "", 0, <<>>)
    /\ UNCHANGED now
    /\ UNCHANGED habitVars
    /\ UNCHANGED storeVars

\* analytics.longest_streak_for_habit(habits[i]).
call_longest_streak_for_habit ==
    /\ \E i \in 1..Len(habits), t \in {now} :
        /\ LET r == longest_streak_for_habit(habits[i], t)
           IN out' = Outcome("longest_streak_for_habit", i, "", r.kind, "",
                             r.val, <<>>)
        /\ habits' = [habits EXCEPT ![i] = habit_after_streak(@)]
    /\ UNCHANGED now
    /\ UNCHANGED habitVars
    /\ UNCHANGED storeVars

\* analytics.longest_streak_overall(habits): calculate_streaks runs on every
\* habit, in order, up to the first one that raises.
call_longest_streak_overall ==
    /\ \E t \in {now} :
        /\ out' = longest_streak_overall(habits, t)
        /\ habits' = [i \in 1..Len(habits) |->
                        IF \E j \in 1..(i - 1) :
                              streak_of(habits[j], t).kind = "ValueError"
                        THEN habits[i]
                        ELSE habit_after_streak(habits[i])]
    /\ UNCHANGED now
    /\ UNCHANGED habitVars
    /\ UNCHANGED storeVars

\* analytics.list_by_periodicity(habits, p): no clock, no call on a habit.
call_list_by_periodicity ==
    /\ \E p \in PeriodicityInputs :
        out' = Outcome("list_by_periodicity", 0, p, "return", "", 0,
                       list_by_periodicity(habits, p))
    /\ UNCHANGED <<habits, now>>
    /\ UNCHANGED habitVars
    /\ UNCHANGED storeVars

\* analytics.longest_streak_for_habit_name(habits, name): calculate_streaks
\* runs on the first habit that matches, if any.
call_longest_streak_for_habit_name ==
    /\ \E name \in QueryNames, t \in {now} :
        /\ out' = longest_streak_for_habit_name(habits, name, t)
        /\ LET i == find_by_name(habits, 1, name)
           IN habits' = IF i = 0 THEN habits
                        ELSE [habits EXCEPT ![i] = habit_after_streak(@)]
    /\ UNCHANGED now
    /\ UNCHANGED habitVars
    /\ UNCHANGED storeVars

NextList ==
    \/ construct_habit
    \/ call_longest_streak_for_habit
    \/ call_longest_streak_overall
    \/ call_list_by_periodicity
    \/ call_longest_streak_for_habit_name

SpecList == InitList /\ [][NextList]_vars

\* --------------------------- sqlite_handler.py: the tables and their queries

\* Most habit ids, and most completion ids, the database issues in the model.
MaxRows == 2
MaxCompletionRows == 2

\* Python's None where a string or a datetime is optional.
NoneStr == "None"
NoneTime == 0 - 1

\* Arguments of the HabitManager calls in the model.
StoreNames == {"Run", "Read"}
StorePeriodicities == {"weekly", "yearly"}
UpdateInputs == {<<NoneStr, NoneStr>>, <<"Read", NoneStr>>,
                 <<NoneStr, "yearly">>, <<"Read", "weekly">>}
WhenInputs == {744}
IdInputs == 1..MaxRows
StoreClock == {733}

\* datetime.isoformat() and datetime.fromisoformat(): the text holds the date
\* before the time of day; a datetime of the model is a number of hours.
isoformat(t) == [date |-> t \div 24, time |-> t % 24]
fromisoformat(text) == text.date * 24 + text.time

\* SQLite compares TEXT left to right: the date part first, then the time.
text_less(a, b) ==
    \/ a.date < b.date
    \/ a.date = b.date /\ a.time < b.time

\* A row of habits (id, name, periodicity, created_at) and of completions
\* (id, habit_id, completed_at).
HabitRow(id, name, p, created_at) ==
    [id |-> id, name |-> name, periodicity |-> p, created_at |-> created_at]
CompletionRow(id, habit_id, completed_at) ==
    [id |-> id, habit_id |-> habit_id, completed_at |-> completed_at]

\* SELECT ... FROM habits WHERE id = ?: at most one row (PRIMARY KEY).
select_habit(d, habit_id) == SelectSeq(d.habits, LAMBDA r : r.id = habit_id)

\* save_habit with the name and periodicity columns exchanged.
save_habit_columns_swapped(d, name, p, created) ==
    LET hid == d.seq_habits + 1
    IN [d EXCEPT !.habits = Append(@, HabitRow(hid, p, name,
                                               isoformat(created))),
                 !.seq_habits = hid]

\* save_habit on a table without AUTOINCREMENT: the new rowid is one more
\* than the largest id now in the table.
save_habit_largest_plus_one(d, name, p, created) ==
    LET ids == {d.habits[i].id : i \in 1..Len(d.habits)}
        hid == IF ids = {} THEN 1
               ELSE (CHOOSE m \in ids : \A k \in ids : k <= m) + 1
    IN [d EXCEPT !.habits = Append(@, HabitRow(hid, name, p,
                                               isoformat(created))),
                 !.seq_habits = hid]

\* save_habit: INSERT INTO habits; AUTOINCREMENT issues the next id, which
\* is cur.lastrowid. The table is kept in id order.
save_habit(d, name, p, created) ==
    LET hid == d.seq_habits + 1
    IN [d EXCEPT !.habits = Append(@, HabitRow(hid, name, p,
                                               isoformat(created))),
                 !.seq_habits = hid]

\* ORDER BY completed_at ASC over the ISO texts.
RECURSIVE insert_by_text(_, _)
insert_by_text(x, s) ==
    IF s = <<>> THEN <<x>>
    ELSE IF text_less(x, Head(s)) THEN <<x>> \o s
    ELSE <<Head(s)>> \o insert_by_text(x, Tail(s))

RECURSIVE order_by_completed_at(_)
order_by_completed_at(rows) ==
    IF rows = <<>> THEN <<>>
    ELSE insert_by_text(Head(rows).completed_at,
                        order_by_completed_at(Tail(rows)))

\* get_completions with the WHERE habit_id = ? left out.
get_completions_all_habits(d, habit_id) ==
    LET texts == order_by_completed_at(d.completions)
    IN [i \in 1..Len(texts) |-> fromisoformat(texts[i])]

\* get_completions(habit_id): the datetimes parsed from the ordered texts.
get_completions(d, habit_id) ==
    LET rows == SelectSeq(d.completions, LAMBDA r : r.habit_id = habit_id)
        texts == order_by_completed_at(rows)
    IN [i \in 1..Len(texts) |-> fromisoformat(texts[i])]

\* Habit.from_db_row(row, completions), when __post_init__ does not raise.
from_db_row(row, comps) ==
    [id |-> row.id, name |-> row.name, periodicity |-> row.periodicity,
     created_at |-> fromisoformat(row.created_at), completions |-> comps]

\* get_habit_by_id: None, the Habit, or the ValueError of __post_init__.
get_habit_by_id(d, habit_id) ==
    LET rows == select_habit(d, habit_id)
    IN IF rows = <<>> THEN [kind |-> "None", list |-> <<>>]
       ELSE IF post_init_raises(rows[1].periodicity)
       THEN [kind |-> "ValueError", list |-> <<>>]
       ELSE [kind |-> "Habit",
             list |-> <<from_db_row(rows[1],
                                    get_completions(d, habit_id))>>]

\* load_habits: every row ORDER BY id, each through from_db_row.
load_habits(d) ==
    IF \E i \in 1..Len(d.habits) : post_init_raises(d.habits[i].periodicity)
    THEN [kind |-> "ValueError", list |-> <<>>]
    ELSE [kind |-> "List",
          list |-> [i \in 1..Len(d.habits) |->
                      from_db_row(d.habits[i],
                                  get_completions(d, d.habits[i].id))]]

\* update_habit with the WHERE clause left out: every row is updated.
update_habit_every_row(d, habit_id, name, p) ==
    IF name = NoneStr /\ p = NoneStr
    THEN [db |-> d, kind |-> "False"]
    ELSE [db |-> [d EXCEPT !.habits =
                    [i \in 1..Len(d.habits) |->
                       [d.habits[i] EXCEPT
                          !.name = IF name = NoneStr THEN @ ELSE name,
                          !.periodicity = IF p = NoneStr THEN @ ELSE p]]],
          kind |-> IF select_habit(d, habit_id) # <<>> THEN "True"
                   ELSE "False"]

\* update_habit(habit_id, name=, periodicity=): the fields that are not None
\* are SET on the row WHERE id = ?; True when a row was touched.
update_habit(d, habit_id, name, p) ==
    IF name = NoneStr /\ p = NoneStr
    THEN [db |-> d, kind |-> "False"]
    ELSE [db |-> [d EXCEPT !.habits =
                    [i \in 1..Len(d.habits) |->
                       IF d.habits[i].id = habit_id
                       THEN [d.habits[i] EXCEPT
                               !.name = IF name = NoneStr THEN @ ELSE name,
                               !.periodicity = IF p = NoneStr THEN @ ELSE p]
                       ELSE d.habits[i]]],
          kind |-> IF select_habit(d, habit_id) # <<>> THEN "True"
                   ELSE "False"]

\* delete_habit with foreign keys left off: the completions stay behind.
delete_habit_no_cascade(d, habit_id) ==
    [db |-> [d EXCEPT !.habits = SelectSeq(@, LAMBDA r : r.id # habit_id)],
     kind |-> IF select_habit(d, habit_id) # <<>> THEN "True" ELSE "False"]

\* delete_habit(habit_id): DELETE FROM habits WHERE id = ?; with PRAGMA
\* foreign_keys = ON the completions of the habit go with it (ON DELETE
\* CASCADE). True when a row was deleted.
delete_habit(d, habit_id) ==
    [db |-> [d EXCEPT
               !.habits = SelectSeq(@, LAMBDA r : r.id # habit_id),
               !.completions = SelectSeq(@, LAMBDA r : r.habit_id # habit_id)],
     kind |-> IF select_habit(d, habit_id) # <<>> THEN "True" ELSE "False"]

\* add_completion(habit_id, when): INSERT INTO completions; the foreign key
\* rejects a habit_id that is not in habits (sqlite3.IntegrityError).
add_completion(d, habit_id, when) ==
    IF select_habit(d, habit_id) = <<>>
    THEN [db |-> d, kind |-> "IntegrityError"]
    ELSE [db |-> [d EXCEPT
                    !.completions =
                        Append(@, CompletionRow(d.seq_completions + 1,
                                                habit_id, isoformat(when))),
                    !.seq_completions = @ + 1],
          kind |-> "True"]

\* ----------------------------------------- habit_manager.py: HabitManager

\* complete_habit without the lookup of the habit.
complete_habit_no_lookup(d, habit_id, when, t) ==
    add_completion(d, habit_id, IF when = NoneTime THEN t ELSE when)

\* complete_habit(habit_id, when): get_habit first (which may raise), False
\* when it is None, else add_completion at when or utcnow().
complete_habit(d, habit_id, when, t) ==
    LET habit == get_habit_by_id(d, habit_id)
    IN IF habit.kind = "ValueError" THEN [db |-> d, kind |-> "ValueError"]
       ELSE IF habit.kind = "None" THEN [db |-> d, kind |-> "False"]
       ELSE add_completion(d, habit_id, IF when = NoneTime THEN t ELSE when)

\* max(habit.completions)
RECURSIVE max_of(_)
max_of(s) ==
    IF Len(s) = 1 THEN s[1]
    ELSE LET m == max_of(Tail(s)) IN IF s[1] >= m THEN s[1] ELSE m

\* latest_completion(habit_id): the latest completion, or None.
latest_completion(d, habit_id) ==
    LET habit == get_habit_by_id(d, habit_id)
    IN IF habit.kind = "ValueError" THEN [kind |-> "ValueError", val |-> 0]
       ELSE IF habit.kind = "Habit" /\ habit.list[1].completions # <<>>
       THEN [kind |-> "return", val |-> max_of(habit.list[1].completions)]
       ELSE [kind |-> "None", val |-> 0]

\* to_db_row with the time of day dropped from created_at.
to_db_row_date_only(h) ==
    [name |-> h.name, periodicity |-> h.periodicity,
     created_at |-> [date |-> h.created_at \div 24, time |-> 0]]

\* Habit.to_db_row(): (name, periodicity, created_at.isoformat()).
to_db_row(h) ==
    [name |-> h.name, periodicity |-> h.periodicity,
     created_at |-> isoformat(h.created_at)]

\* Outcome of a call on the HabitManager, with its arguments.
Result(op, id, name, p, when, kind, list, val) ==
    [op |-> op, id |-> id, name |-> name, periodicity |-> p, when |-> when,
     kind |-> kind, list |-> list, val |-> val]

\* ------------------------------------------- actions on a HabitManager

\* HabitManager(SQLiteHandler(path)) on a new database file.
InitStore ==
    /\ periodicity = "daily"
    /\ completions = <<>>
    /\ now \in StoreClock
    /\ ret = ReturnNone
    /\ habits = <<>>
    /\ out = NoCall
    /\ db = EmptyDb
    /\ res = NoResult

\* create_habit(name, periodicity): Habit(...) raises before anything is
\* saved; otherwise save_habit and return get_habit of the new id.
create_habit ==
    /\ \E name \in StoreNames, p \in StorePeriodicities :
        IF post_init_raises(p)
        THEN /\ db' = db
             /\ res' = Result("create_habit", 0, name, p, 0, "ValueError",
                              <<>>, 0)
        ELSE /\ db.seq_habits < MaxRows
             /\ db' = save_habit(db, name, p, now)
             /\ LET h == get_habit_by_id(db', db'.seq_habits)
                IN res' = Result("create_habit", 0, name, p, 0, h.kind,
                                 h.list, 0)
    /\ UNCHANGED now
    /\ UNCHANGED habitVars
    /\ UNCHANGED listVars

list_habits ==
    /\ LET r == load_habits(db)
       IN res' = Result("list_habits", 0, "", "", 0, r.kind, r.list, 0)
    /\ UNCHANGED <<db, now>>
    /\ UNCHANGED habitVars
    /\ UNCHANGED listVars

get_habit ==
    /\ \E habit_id \in IdInputs :
        LET r == get_habit_by_id(db, habit_id)
        IN res' = Result("get_habit", habit_id, "", "", 0, r.kind, r.list, 0)
    /\ UNCHANGED <<db, now>>
    /\ UNCHANGED habitVars
    /\ UNCHANGED listVars

call_update_habit ==
    /\ \E habit_id \in IdInputs, fields \in UpdateInputs :
        LET name == fields[1]
            p == fields[2]
            r == update_habit(db, habit_id, name, p)
        IN /\ db' = r.db
           /\ res' = Result("update_habit", habit_id, name, p, 0, r.kind,
                            <<>>, 0)
    /\ UNCHANGED now
    /\ UNCHANGED habitVars
    /\ UNCHANGED listVars

call_delete_habit ==
    /\ \E habit_id \in IdInputs :
        LET r == delete_habit(db, habit_id)
        IN /\ db' = r.db
           /\ res' = Result("delete_habit", habit_id, "", "", 0, r.kind,
                            <<>>, 0)
    /\ UNCHANGED now
    /\ UNCHANGED habitVars
    /\ UNCHANGED listVars

call_complete_habit ==
    /\ \E habit_id \in IdInputs, when \in WhenInputs \cup {NoneTime} :
        LET r == complete_habit(db, habit_id, when, now)
        IN /\ r.db # db => db.seq_completions < MaxCompletionRows
           /\ db' = r.db
           /\ res' = Result("complete_habit", habit_id, "", "", when, r.kind,
                            <<>>, 0)
    /\ UNCHANGED now
    /\ UNCHANGED habitVars
    /\ UNCHANGED listVars

call_latest_completion ==
    /\ \E habit_id \in IdInputs :
        LET r == latest_completion(db, habit_id)
        IN res' = Result("latest_completion", habit_id, "", "", 0, r.kind,
                         <<>>, r.val)
    /\ UNCHANGED <<db, now>>
    /\ UNCHANGED habitVars
    /\ UNCHANGED listVars

\* Habit.from_db_row((h.id,) + h.to_db_row()) for a habit h got from the
\* manager; no completions are passed, so `completions or []` is [].
call_from_db_row ==
    /\ \E habit_id \in IdInputs :
        LET got == get_habit_by_id(db, habit_id)
        IN /\ got.kind = "Habit"
           /\ LET h == got.list[1]
                  r == to_db_row(h)
                  row == HabitRow(h.id, r.name, r.periodicity, r.created_at)
              IN res' = IF post_init_raises(row.periodicity)
                        THEN Result("from_db_row", habit_id, "", "", 0,
                                    "ValueError", <<>>, 0)
                        ELSE Result("from_db_row", habit_id, "", "", 0,
                                    "Habit", <<from_db_row(row, <<>>)>>, 0)
    /\ UNCHANGED <<db, now>>
    /\ UNCHANGED habitVars
    /\ UNCHANGED listVars

NextStore ==
    \/ create_habit
    \/ list_habits
    \/ get_habit
    \/ call_update_habit
    \/ call_delete_habit
    \/ call_complete_habit
    \/ call_latest_completion
    \/ call_from_db_row

SpecStore == InitStore /\ [][NextStore]_vars

\* ------------------------------------------------- vocabulary of the claims

\* A call of calculate_streaks has just returned or raised: its outcome is in
\* ret, the habit it read is (periodicity, completions) and its clock reading
\* is now.
Called == ret.kind # "None"
Returned == ret.kind = "return"

\* The tolerance window the specification names: period + 12h.
Window == _period_delta(periodicity) + GraceHours

N == Len(completions)

\* Every order the list s can be stored in.
Rearrangements(s) ==
    {[i \in 1..Len(s) |-> s[f[i]]] : f \in Permutations(1..Len(s))}

\* The completions in ascending order, stated without the code's sort: the
\* i-th entry is the timestamp v with fewer than i stored entries below it and
\* at least i stored entries at or below it.
Ascending ==
    [i \in 1..N |->
        CHOOSE v \in {completions[j] : j \in 1..N} :
            /\ Cardinality({j \in 1..N : completions[j] < v}) < i
            /\ Cardinality({j \in 1..N : completions[j] <= v}) >= i]

\* The most recent completion: the maximum timestamp.
LastCompletion == CHOOSE c \in {completions[i] : i \in 1..N} :
                      \A i \in 1..N : completions[i] <= c

\* Gap between the i-th and the (i+1)-th entry of the ascending list asc.
Gap(asc, i) == asc[i + 1] - asc[i]

\* The number of completions in the unbroken run that ends at the most recent
\* one: the last k entries of asc have all their k-1 gaps within the window w,
\* and the gap before them, if any, exceeds it.
ChainLength(asc, w) ==
    CHOOSE k \in 1..Len(asc) :
        /\ \A i \in (Len(asc) - k + 1)..(Len(asc) - 1) : Gap(asc, i) <= w
        /\ k = Len(asc) \/ Gap(asc, Len(asc) - k) > w

\* ------------------------------------------------------------------ claims

\* C1: calculate_streaks returns 0 whenever the most recent completion is
\* older than period + 12h relative to now, for each periodicity and however
\* many earlier completions there are and however they are spaced.
C1_StaleStreakIsZero ==
    (Called /\ periodicity \in VALID_PERIODICITIES /\ N > 0
        /\ now - LastCompletion > Window)
    => ret = Return(0)

\* Daily habit, most recent completion at now - 3d, an earlier completion
\* stored as well: the streak returned is 0.
C1_Witness ==
    /\ Called /\ periodicity = "daily" /\ N >= 2
    /\ now - LastCompletion = 3 * DailyHours
    /\ ret = Return(0)

\* C2: with a non-empty list whose most recent completion is within the
\* window of now, the streak is 1 plus the number of adjacent pairs, counted
\* backward from the most recent completion, whose gap is <= period + 12h,
\* stopping at the first gap that exceeds it; completions before that gap do
\* not contribute.
C2_StreakIsChainLength ==
    (Called /\ periodicity \in VALID_PERIODICITIES /\ N > 0
        /\ now - LastCompletion <= Window)
    => ret = Return(ChainLength(Ascending, Window))

\* Three completions, the two oldest within the window of each other, the
\* most recent one beyond the window from them: only the most recent counts.
C2_Witness ==
    /\ Called /\ periodicity \in VALID_PERIODICITIES /\ N = 3
    /\ now - LastCompletion <= Window
    /\ Gap(Ascending, 1) <= Window /\ Gap(Ascending, 2) > Window
    /\ ret = Return(1)

\* C3: for a habit with no completions calculate_streaks returns 0, for each
\* of daily, weekly and monthly.
C3_EmptyStreakIsZero ==
    (Called /\ periodicity \in VALID_PERIODICITIES /\ completions = <<>>)
    => ret = Return(0)

C3_Witness ==
    /\ Called /\ periodicity = "monthly" /\ completions = <<>>
    /\ now > 0
    /\ ret = Return(0)

\* C4: the comparison against the window is inclusive. A gap of exactly the
\* period, or of exactly period + 12h, reached by the backward walk extends
\* the streak; a most recent completion exactly period + 12h before now does
\* not reset it; a daily habit completed at now, now - 1d and now - 2d has
\* streak 3.
C4_BoundaryInclusive ==
    (Called /\ periodicity \in VALID_PERIODICITIES /\ N > 0)
    => LET asc == Ascending
           w == Window
       IN
       /\ now - asc[N] = w => (Returned /\ ret.val >= 1)
       /\ now - asc[N] <= w =>
            \A i \in 1..(N - 1) :
                (Gap(asc, i) \in {_period_delta(periodicity), w} /\ ret.val >= N - i)
                => ret.val >= N - i + 1
       /\ (periodicity = "daily"
            /\ asc = <<now - 2 * DailyHours, now - DailyHours, now>>)
          => ret = Return(3)

\* The daily scenario: completions at now, now - 1d, now - 2d, streak 3.
C4_Witness ==
    /\ Called /\ periodicity = "daily"
    /\ N = 3
    /\ Ascending = <<now - 2 * DailyHours, now - DailyHours, now>>
    /\ ret = Return(3)

\* C5: the value calculate_streaks returns is a non-negative integer no
\* larger than the number of completions of the habit.
C5_StreakAtMostCompletions ==
    Returned => (ret.val \in Nat /\ ret.val <= N)

\* Every stored completion counts: the bound is attained.
C5_Witness ==
    /\ Returned /\ N = 3 /\ ret.val = N

C7_OrderIrrelevant ==
    Called =>
        \A s \in Rearrangements(completions) :
            calculate_streaks(periodicity, s, now) = ret

\* A list stored in descending order whose three completions all count.
C7_Witness ==
    /\ Called /\ N = 3
    /\ completions[1] > completions[2] /\ completions[2] > completions[3]
    /\ ret = Return(3)

\* C8: repeated timestamps are tolerated. A list holding a repeated
\* timestamp gets a value, not an error; a repeated timestamp reached by the
\* backward walk extends the streak (its gap is 0); and storing a duplicate of
\* an existing completion never lowers the streak.
C8_DuplicatesTolerated ==
    (Called /\ periodicity \in VALID_PERIODICITIES /\ N > 0)
    => LET asc == Ascending
       IN
       /\ Returned
       /\ now - asc[N] <= Window =>
            \A i \in 1..(N - 1) :
                (Gap(asc, i) = 0 /\ ret.val >= N - i) => ret.val >= N - i + 1
       /\ \A c \in {completions[i] : i \in 1..N} :
            LET more == calculate_streaks(periodicity, Append(completions, c), now)
            IN more.kind = "return" /\ more.val >= ret.val

\* The same timestamp stored twice, an older completion beyond the window:
\* both copies count.
C8_Witness ==
    /\ Called /\ periodicity \in VALID_PERIODICITIES /\ N = 3
    /\ Gap(Ascending, 2) = 0 /\ Gap(Ascending, 1) > Window
    /\ ret = Return(2)

\* C9: a weekly habit completed at now, now - 6d and now - 20d has streak 2.
C9_WeeklyScenario ==
    (Called /\ periodicity = "weekly" /\ N = 3
        /\ Ascending = <<now - 20 * DailyHours, now - 6 * DailyHours, now>>)
    => ret = Return(2)

C9_Witness ==
    /\ Called /\ periodicity = "weekly" /\ N = 3
    /\ Ascending = <<now - 20 * DailyHours, now - 6 * DailyHours, now>>
    /\ ret = Return(2)

\* C10: a habit with exactly one completion, within period + 12h of now, has
\* streak exactly 1, for each periodicity.
C10_SingleCompletion ==
    (Called /\ periodicity \in VALID_PERIODICITIES /\ N = 1
        /\ now - completions[1] <= Window)
    => ret = Return(1)

\* The single completion lies exactly period + 12h before now.
C10_Witness ==
    /\ Called /\ periodicity \in VALID_PERIODICITIES /\ N = 1
    /\ now - completions[1] = Window
    /\ ret = Return(1)

\* C11: the period is 24 hours for daily, 7 days for weekly and 30 days for
\* monthly, and the window compared against now - last_completion and against
\* every gap is that period plus exactly 12 hours: the streak is 0 exactly
\* when the most recent completion is more than that many hours before now,
\* and otherwise it is the run of gaps no longer than that many hours.
ClaimedWindowHours ==
    CASE periodicity = "daily" -> 24 + 12
      [] periodicity = "weekly" -> 7 * 24 + 12
      [] periodicity = "monthly" -> 30 * 24 + 12

C11_WindowIsPeriodPlusTwelveHours ==
    (Called /\ periodicity \in VALID_PERIODICITIES /\ N > 0)
    => /\ Returned
       /\ ret.val = 0 <=> now - LastCompletion > ClaimedWindowHours
       /\ now - LastCompletion <= ClaimedWindowHours
          => ret.val = ChainLength(Ascending, ClaimedWindowHours)

\* A monthly habit whose two completions lie exactly 30 days and 12 hours
\* apart: both count.
C11_Witness ==
    /\ Called /\ periodicity = "monthly" /\ N = 2
    /\ Gap(Ascending, 1) = 30 * 24 + 12
    /\ ret = Return(2)

\* ------------------------------------- vocabulary of the claims on a list

\* The last call on the list.
LastOp(op) == out.op = op

\* The calls of the analytics API that take habits.
AnalyticsOps ==
    {"longest_streak_for_habit", "longest_streak_overall",
     "list_by_periodicity", "longest_streak_for_habit_name"}

\* The streak calculate_streaks gives habit i of the list at the current clock.
StreakAt(i) == streak_of(habits[i], now).val

\* Names that are equal up to the case of their letters.
CaseClasses == {{"Run", "run", "RUN"}, {"Read", "read"}, {"Ru", "ru"}}
SameIgnoringCase(a, b) == \E c \in CaseClasses : a \in c /\ b \in c

\* The list s in ascending order, stated without the code's sort.
AscendingOf(s) ==
    [i \in 1..Len(s) |->
        CHOOSE v \in {s[j] : j \in 1..Len(s)} :
            /\ Cardinality({j \in 1..Len(s) : s[j] < v}) < i
            /\ Cardinality({j \in 1..Len(s) : s[j] <= v}) >= i]

\* The length of the longest run of consecutive completions of habit h whose
\* adjacent gaps are all within period + 12h; 0 for a habit never completed.
LongestRun(h) ==
    LET asc == AscendingOf(h.completions)
        w == _period_delta(h.periodicity) + GraceHours
        runs == {<<i, j>> \in (1..Len(asc)) \X (1..Len(asc)) :
                    /\ i <= j
                    /\ \A k \in i..(j - 1) : Gap(asc, k) <= w}
        lengths == {r[2] - r[1] + 1 : r \in runs} \cup {0}
    IN CHOOSE m \in lengths : \A n \in lengths : n <= m

\* C12: the analytics functions have no side effects: a call of
\* longest_streak_for_habit (calculate_streaks), longest_streak_overall,
\* list_by_periodicity or longest_streak_for_habit_name leaves every habit of
\* the list with the same id, name, periodicity, created_at and the same
\* completions in the same order.
C12_NoSideEffects ==
    [][out'.op \in AnalyticsOps => habits' = habits]_vars

\* longest_streak_overall has run over two habits, the first of which stores
\* its five completions newest first.
C12_Witness ==
    /\ LastOp("longest_streak_overall") /\ out.kind = "return"
    /\ Len(habits) = 2
    /\ habits[1].completions = Run(5)
    /\ habits[1].completions[1] > habits[1].completions[2]

\* C13: on a non-empty list longest_streak_overall returns the pair (name,
\* streak) whose streak is the maximum of calculate_streaks over the list and
\* whose name is that of the first habit, in input order, with that streak.
C13_OverallIsFirstMaximum ==
    (LastOp("longest_streak_overall") /\ habits # <<>>)
    => LET n == Len(habits)
           m == CHOOSE v \in {StreakAt(i) : i \in 1..n} :
                    \A i \in 1..n : StreakAt(i) <= v
           first == CHOOSE i \in 1..n :
                        /\ StreakAt(i) = m
                        /\ \A j \in 1..(i - 1) : StreakAt(j) < m
       IN /\ out.kind = "return"
          /\ out.val = m
          /\ out.name = habits[first].name

\* Two habits with streaks 3 and 5: the one with 5 is returned.
C13_Witness ==
    /\ LastOp("longest_streak_overall")
    /\ Len(habits) = 2
    /\ StreakAt(1) = 3 /\ StreakAt(2) = 5
    /\ habits[1].name # habits[2].name
    /\ out.kind = "return" /\ out.name = habits[2].name /\ out.val = 5

\* C14: longest_streak_overall returns None on the empty list, and a pair,
\* never None, on every non-empty list.
C14_OverallNoneIffEmpty ==
    LastOp("longest_streak_overall")
    => /\ habits = <<>> => out.kind = "None"
       /\ habits # <<>> => out.kind = "return"

C14_Witness ==
    /\ LastOp("longest_streak_overall")
    /\ habits = <<>>
    /\ out.kind = "None"

\* C15: longest_streak_for_habit_name returns calculate_streaks of the first
\* habit, in input order, whose whole name equals the given name ignoring
\* case, and None when there is none; on a one-habit list asked for by that
\* habit's name in any letter case it equals longest_streak_for_habit.
C15_StreakByNameFirstMatch ==
    LastOp("longest_streak_for_habit_name")
    => LET n == Len(habits)
           matches == {i \in 1..n : SameIgnoringCase(habits[i].name, out.argStr)}
       IN  IF matches = {}
           THEN out.kind = "None"
           ELSE LET first == CHOOSE i \in matches : \A j \in matches : i <= j
                IN /\ out.kind = "return"
                   /\ out.val = StreakAt(first)
                   /\ n = 1 => out.val = longest_streak_for_habit(habits[1], now).val

\* Two habits named alike up to case, neither spelled as the name asked for,
\* with different streaks: the streak of the first is returned.
C15_Witness ==
    /\ LastOp("longest_streak_for_habit_name")
    /\ Len(habits) = 2
    /\ out.argStr = "RUN"
    /\ habits[1].name = "run" /\ habits[2].name = "Run"
    /\ StreakAt(1) = 3 /\ StreakAt(2) = 5
    /\ out.kind = "return" /\ out.val = 3

\* C16: list_by_periodicity(habits, p) returns the habits of the input whose
\* periodicity is p, each as often as it occurs and in input order, and no
\* habit of another periodicity.
C16_ListByPeriodicityIsFilter ==
    LastOp("list_by_periodicity")
    => LET idx == {i \in 1..Len(habits) : habits[i].periodicity = out.argStr}
           kth(k) == CHOOSE i \in idx : Cardinality({j \in idx : j < i}) = k - 1
       IN /\ out.kind = "return"
          /\ Len(out.list) = Cardinality(idx)
          /\ \A k \in 1..Cardinality(idx) : out.list[k] = habits[kth(k)]

\* The second of two habits has the periodicity asked for, the first not.
C16_Witness ==
    /\ LastOp("list_by_periodicity")
    /\ Len(habits) = 2
    /\ habits[1].periodicity # out.argStr
    /\ habits[2].periodicity = out.argStr
    /\ out.list = <<habits[2]>>

\* C17: longest_streak_for_habit returns the longest streak of the habit: the
\* maximum length over all runs of consecutive completions with gaps within
\* period + 12h, runs that ended in the past included.
C17_LongestStreakIsLongestRun ==
    (LastOp("longest_streak_for_habit") /\ out.kind = "return")
    => out.val = LongestRun(habits[out.argIdx])

\* -------------------------------- vocabulary of the claims on the manager

\* The habit id is in the habits table of database d.
Exists(d, habit_id) == select_habit(d, habit_id) # <<>>

\* The timestamp a complete_habit call recorded in res was to store.
Timestamp(r, t) == IF r.when = NoneTime THEN t ELSE r.when

Elements(s) == {s[i] : i \in 1..Len(s)}

\* ---------------------------------------------------------------- C18
\* C18: after any sequence of create_habit, update_habit, delete_habit and
\* complete_habit calls every stored habit has a periodicity in
\* {daily, weekly, monthly}, and so list_habits and get_habit never fail to
\* load a habit.
C18_StoredPeriodicityValid ==
    /\ \A i \in 1..Len(db.habits) :
          db.habits[i].periodicity \in {"daily", "weekly", "monthly"}
    /\ res.op \in {"list_habits", "get_habit"} => res.kind # "ValueError"

\* ---------------------------------------------------------------- C19
\* C19: complete_habit(habit_id, when) for an id that is not in the store
\* returns False and leaves the store as it was: no completion row is added,
\* for that id or any other.
C19_CompleteMissingHabit ==
    [][(res'.op = "complete_habit" /\ ~Exists(db, res'.id))
         => (res'.kind = "False" /\ db' = db)]_vars

\* Reached: the call on a missing id, returning False, on a store that holds
\* another habit with a completion.
C19_Witness ==
    /\ res.op = "complete_habit"
    /\ ~Exists(db, res.id)
    /\ res.kind = "False"
    /\ db.habits # <<>>
    /\ db.completions # <<>>

\* ---------------------------------------------------------------- C20
\* C20: complete_habit(habit_id, when) for a habit that is in the store
\* returns True, and afterwards get_completions(habit_id) contains when and
\* is longer by exactly one.
C20_CompleteExistingHabit ==
    [][(res'.op = "complete_habit" /\ Exists(db, res'.id))
         => /\ res'.kind = "True"
            /\ Timestamp(res', now) \in Elements(get_completions(db', res'.id))
            /\ Len(get_completions(db', res'.id))
                 = Len(get_completions(db, res'.id)) + 1]_vars

\* The completion rows of database d that belong to habit_id.
CompletionsOf(d, habit_id) ==
    SelectSeq(d.completions, LAMBDA r : r.habit_id = habit_id)

\* ---------------------------------------------------------------- C21
\* C21: delete_habit(habit_id) for a habit in the store returns True and
\* removes it with all its completions: get_habit(habit_id) is then None and
\* no completion of that habit_id remains, every other row staying as it
\* was; for an id not in the store it returns False and changes nothing.
C21_DeleteHabit ==
    [][res'.op = "delete_habit" =>
         IF Exists(db, res'.id)
         THEN /\ res'.kind = "True"
              /\ get_habit_by_id(db', res'.id).kind = "None"
              /\ CompletionsOf(db', res'.id) = <<>>
              /\ db'.habits = SelectSeq(db.habits, LAMBDA r : r.id # res'.id)
              /\ db'.completions
                   = SelectSeq(db.completions,
                               LAMBDA r : r.habit_id # res'.id)
         ELSE /\ res'.kind = "False"
              /\ db' = db]_vars

\* Reached: a habit with a completion was deleted while another habit, with
\* a completion of its own, stays in the store.
C21_Witness ==
    /\ res.op = "delete_habit"
    /\ res.kind = "True"
    /\ db.seq_completions = 2
    /\ Len(db.completions) = 1
    /\ Len(db.habits) = 1

\* ---------------------------------------------------------------- C22
\* C22: update_habit(habit_id, name, periodicity) on a habit in the store,
\* with at least one field given, returns True and sets exactly the fields
\* that are not None; the other field, the id, created_at and the completions
\* of the habit, and every other habit, stay as they were. With an id not in
\* the store, or with no field given, it returns False and changes nothing.
C22_UpdateHabit ==
    [][res'.op = "update_habit" =>
         IF Exists(db, res'.id)
            /\ ~(res'.name = NoneStr /\ res'.periodicity = NoneStr)
         THEN /\ res'.kind = "True"
              /\ Len(db'.habits) = Len(db.habits)
              /\ \A i \in 1..Len(db.habits) :
                    LET old == db.habits[i]
                        new == db'.habits[i]
                    IN IF old.id # res'.id THEN new = old
                       ELSE /\ new.id = old.id
                            /\ new.created_at = old.created_at
                            /\ new.name = IF res'.name = NoneStr
                                          THEN old.name ELSE res'.name
                            /\ new.periodicity
                                 = IF res'.periodicity = NoneStr
                                   THEN old.periodicity
                                   ELSE res'.periodicity
              /\ db'.completions = db.completions
         ELSE /\ res'.kind = "False"
              /\ db' = db]_vars

\* Reached: only the name of one of two habits was changed, the habit
\* having a completion.
C22_Witness ==
    /\ res.op = "update_habit"
    /\ res.kind = "True"
    /\ res.name = "Read"
    /\ res.periodicity = NoneStr
    /\ Len(db.habits) = 2
    /\ \E i \in 1..2 : db.habits[i].id # res.id /\ db.habits[i].name = "Run"
    /\ CompletionsOf(db, res.id) # <<>>

\* ---------------------------------------------------------------- C23
\* C23: create_habit(name, periodicity) with a valid periodicity returns a
\* habit with an id that is not None, the given name and periodicity and no
\* completions, and get_habit of that id then returns a habit of the same
\* name and periodicity; with an invalid periodicity it raises and no habit
\* is added to the store.
C23_CreateHabit ==
    [][res'.op = "create_habit" =>
         IF res'.periodicity \in {"daily", "weekly", "monthly"}
         THEN /\ res'.kind = "Habit"
              /\ LET h == res'.list[1]
                     got == get_habit_by_id(db', h.id)
                 IN /\ h.id # 0
                    /\ h.name = res'.name
                    /\ h.periodicity = res'.periodicity
                    /\ h.completions = <<>>
                    /\ got.kind = "Habit"
                    /\ got.list[1].name = res'.name
                    /\ got.list[1].periodicity = res'.periodicity
                    /\ Len(db'.habits) = Len(db.habits) + 1
         ELSE /\ res'.kind = "ValueError"
              /\ db' = db]_vars

\* Reached: a second habit was created and returned with its own id.
C23_Witness ==
    /\ res.op = "create_habit"
    /\ res.kind = "Habit"
    /\ res.name = "Read"
    /\ res.list[1].id = 2
    /\ Len(db.habits) = 2

\* The datetimes stored for habit_id in database d.
StoredTimes(d, habit_id) ==
    {fromisoformat(CompletionsOf(d, habit_id)[i].completed_at) :
        i \in 1..Len(CompletionsOf(d, habit_id))}

\* ---------------------------------------------------------------- C24
\* C24: latest_completion(habit_id) returns the maximum completion timestamp
\* of the habit, in whatever order the completions were recorded, and None
\* when the habit is not in the store or has no completions.
C24_LatestCompletion ==
    res.op = "latest_completion" =>
        IF Exists(db, res.id) /\ StoredTimes(db, res.id) # {}
        THEN /\ res.kind = "return"
             /\ res.val \in StoredTimes(db, res.id)
             /\ \A t \in StoredTimes(db, res.id) : t <= res.val
        ELSE res.kind = "None"

\* ---------------------------------------------------------------- C25
\* C25: for a habit h, Habit.from_db_row((h.id,) + h.to_db_row()) is a habit
\* with the id, name, periodicity and created_at of h, and with an empty
\* completion list when no completions are passed.
C25_RoundTrip ==
    res.op = "from_db_row" =>
        /\ res.kind = "Habit"
        /\ LET h == get_habit_by_id(db, res.id).list[1]
               restored == res.list[1]
           IN /\ restored.id = h.id
              /\ restored.name = h.name
              /\ restored.periodicity = h.periodicity
              /\ restored.created_at = h.created_at
              /\ restored.completions = <<>>

\* Reached: the round trip of a renamed habit that has completions, created
\* at a time of day other than midnight.
C25_Witness ==
    /\ res.op = "from_db_row"
    /\ res.kind = "Habit"
    /\ res.list[1].name = "Read"
    /\ res.list[1].created_at % 24 # 0
    /\ get_habit_by_id(db, res.id).list[1].completions # <<>>

\* ------------------------------------------ claims on the moving clock

\* Every completion of the habit is at or before the instant t.
NoneAfter(t) == \A i \in 1..N : completions[i] <= t

\* ---------------------------------------------------------------- C26
\* C26: with the completion list held fixed and every completion at or
\* before the first reading of the clock, a later reading gives the same
\* streak k >= 1 as long as now - last completion <= period + 12h, and 0 from
\* then on: the streak never increases and never leaves 0 again.
C26_StreakOverAdvancingClock ==
    [][(/\ Returned
        /\ ret'.kind = "return"
        /\ completions' = completions
        /\ periodicity \in VALID_PERIODICITIES
        /\ N > 0
        /\ NoneAfter(now))
         => /\ now' >= now
            /\ ret.val >= 1 <=> now - LastCompletion <= Window
            /\ ret'.val = (IF now' - LastCompletion <= Window
                           THEN ret.val ELSE 0)
            /\ ret'.val <= ret.val
            /\ ret.val = 0 => ret'.val = 0]_vars

\* Reached: a streak of two or more read again after its window has passed.
C26_Witness ==
    /\ Returned
    /\ ret.val = 0
    /\ periodicity \in VALID_PERIODICITIES
    /\ N >= 2
    /\ NoneAfter(now)
    /\ now - LastCompletion > Window
    /\ \E t \in Times :
          /\ t < now
          /\ NoneAfter(t)
          /\ calculate_streaks(periodicity, completions, t).val >= 2

\* ---------------------------------------------------------------- C27
\* C27: recording a completion at the current time now, for a habit whose
\* completions are all at or before now, changes the streak evaluated at
\* that same now from the value just returned to that value + 1 when it was
\* positive, and to exactly 1 when it was 0 (no completions, or a stale
\* history).
C27_CompletionNowExtendsStreak ==
    [][(/\ Returned
        /\ periodicity \in VALID_PERIODICITIES
        /\ NoneAfter(now)
        /\ now' = now
        /\ completions' = Append(completions, now))
         => calculate_streaks(periodicity, completions', now')
              = Return(IF ret.val > 0 THEN ret.val + 1 ELSE 1)]_vars

\* Reached: the completion recorded at now as the third of a run.
C27_Witness ==
    /\ ret.kind = "None"
    /\ periodicity \in VALID_PERIODICITIES
    /\ N = 3
    /\ completions[N] = now
    /\ NoneAfter(now)
    /\ calculate_streaks(periodicity, SubSeq(completions, 1, 2), now).val = 2
    /\ calculate_streaks(periodicity, completions, now).val = 3

\* ---------------------------------------------------------------- C28
\* C28: a completion later than now never makes the streak stale: whenever
\* the most recent completion is at or after now, the streak is at least 1,
\* however far in the future that completion lies.
C28_FutureCompletionNeverStale ==
    (Called /\ periodicity \in VALID_PERIODICITIES /\ N > 0
      /\ LastCompletion >= now)
    => (Returned /\ ret.val >= 1)

\* Reached: the latest completion lies further after now than the window is
\* long.
C28_Witness ==
    /\ Called
    /\ periodicity \in VALID_PERIODICITIES
    /\ N > 0
    /\ LastCompletion - now > Window
    /\ ret.val >= 1

\* The ids of the habits stored in database d.
StoredIds(d) == {d.habits[i].id : i \in 1..Len(d.habits)}

C30_CompleteTouchesOneHabit ==
    [][/\ res'.op = "complete_habit"
           => /\ db'.habits = db.habits
              /\ \A id \in StoredIds(db) \ {res'.id} :
                    /\ get_completions(db', id) = get_completions(db, id)
                    /\ CompletionsOf(db', id) = CompletionsOf(db, id)
       /\ \A i \in 1..Len(db'.completions) :
             Exists(db', db'.completions[i].habit_id)]_vars

\* Reached: a completion recorded for one of two habits while the other has
\* a completion of its own.
C30_Witness ==
    /\ res.op = "complete_habit"
    /\ res.kind = "True"
    /\ Len(db.habits) = 2
    /\ \E id \in StoredIds(db) \ {res.id} : CompletionsOf(db, id) # <<>>
    /\ CompletionsOf(db, res.id) # <<>>

====
